---- MODULE Spec2Model ----
(***************************************************************************)
(* State-machine model of hbaselines/goal_conditioned/policy.py:           *)
(*   - FeedForwardPolicy (store_transition, update, get_td_map,            *)
(*     initialize, update_from_batch), and                                 *)
(*   - GoalConditionedPolicy, the hierarchy controller (get_action,        *)
(*     store_transition, clear_memory, _update_meta, update, get_td_map,   *)
(*     initialize).                                                        *)
(* One behaviour is one program run that constructs one policy object and  *)
(* then calls its methods.  An exception propagates uncaught and ends the  *)
(* run (err # "none"), keeping whatever the handler had already written.   *)
(*                                                                         *)
(* Observations, contexts, goals and actions are one-dimensional vectors   *)
(* (tuples of length 1) of small integers; the Worker observation          *)
(* concat(obs, goal) is a tuple of length 2.                               *)
(***************************************************************************)
EXTENDS Integers, Sequences, FiniteSets, TLC

(***************************************************************************)
(* Bounds of the model.                                                    *)
(***************************************************************************)
\* meta_period is drawn from 1..MaxPeriod in Spec
MaxPeriod == 2
\* store_transition calls per run in Spec
MaxCalls == 3
\* update() and get_td_map() calls per run in SpecTrain
MaxUpdates == 1
\* goals stay within -MaxGoal..MaxGoal (repeated goal transitions drift)
MaxGoal == 2
\* meta_period is drawn from 1..MaxAltPeriod in SpecAlt
MaxAltPeriod == 3
\* store_transition calls per run in SpecAlt
MaxAltCalls == 3
\* store_transition calls per run in SpecTrain
MaxTrainStores == 2
\* meta_period is drawn from 1..MaxStepPeriod in SpecStep
MaxStepPeriod == 2
\* store_transition calls per run in SpecStep
MaxStepCalls == 2
\* meta_period is drawn from 1..MaxEpPeriod in SpecEpisode
MaxEpPeriod == 5
\* store_transition calls per run in SpecEpisode
MaxEpSteps == 12
\* rewards are drawn from -MaxRew..MaxRew in SpecEval
MaxRew == 1
\* the discount gamma is drawn from 0..MaxGamma in SpecEval
MaxGamma == 2
\* outputs of the target critics are drawn from -MaxQ..MaxQ in SpecEval
MaxQ == 2
\* bounds of the action space are drawn from -MaxBox..MaxBox in SpecEval
MaxBox == 1
\* the tanh of the output layer is drawn from the multiples of 1/TanhDen
TanhDen == 2
\* exploration noise is drawn from -MaxNoise..MaxNoise action units
MaxNoise == 6
\* num_samples of _sample is drawn from 2..MaxSamples
MaxSamples == 3

(***************************************************************************)
(* Input domains.                                                          *)
(***************************************************************************)
\* Python's None is the empty tuple; a field that holds None or a number holds
\* <<>> or <<number>> (meta_reward)
None == <<>>
ObsVals == {<<0>>, <<1>>}
CtxVals == {None, <<0>>}
GoalVals == {<<0>>, <<1>>}
ActVals == {<<0>>, <<1>>}
RewVals == {0, 1}
PolicyKinds == {"FeedForwardPolicy", "GoalConditionedPolicy"}
\* keyword arguments of update(): a missing key is None
KwVals == {None, <<FALSE>>, <<TRUE>>}

VARIABLES
    policy,            \* class of the policy object of this run
    meta_period,       \* self.meta_period
    relative_goals,    \* self.relative_goals
    batch_size,        \* self.batch_size
    connected_gradients, \* self.connected_gradients
    off_policy_corrections, \* self.off_policy_corrections
    layers,            \* self.layers of the (Manager, Worker or only) networks
    built,             \* what FeedForwardPolicy.__init__ has created
    meta_action,       \* self.meta_action
    meta_reward,       \* self.meta_reward
    prev_meta_obs,     \* self.prev_meta_obs
    _observations,     \* self._observations
    _worker_actions,   \* self._worker_actions
    _worker_rewards,   \* self._worker_rewards
    _dones,            \* self._dones
    _meta_actions,     \* self._meta_actions
    replay_buffer,     \* self.replay_buffer, oldest entry first
    params,            \* online and target parameters of every level
    samples,           \* number of replay_buffer.sample() calls so far
    ret,               \* value returned by the last call
    err,               \* "none", or the exception that ended the run
    h_last,            \* history: the last completed call
    h_steps,           \* history: the store_transition calls since the last finalization
    h_mgr,             \* history: Manager queries since the last finalization
    h_buf,             \* history: for each replay_buffer.add, the calls that fed it
    h_obs,             \* history: the observation get_action was given, then
                       \* the one store_transition was given as obs1
    h_ep,              \* history: the current (or just ended) episode
    h_calls            \* history: numbers of calls made

prog_vars == <<policy, meta_period, relative_goals, batch_size,
               connected_gradients, off_policy_corrections, layers, built,
               meta_action,
               meta_reward, prev_meta_obs, _observations, _worker_actions,
               _worker_rewards, _dones, _meta_actions, replay_buffer, params,
               samples, ret, err>>
conf_vars == <<policy, meta_period, relative_goals, batch_size,
               connected_gradients, off_policy_corrections, layers, built>>
hist_vars == <<h_last, h_steps, h_mgr, h_buf, h_obs, h_ep, h_calls>>
vars == <<prog_vars, hist_vars>>

(***************************************************************************)
(* Vector helpers (numpy elementwise arithmetic, slicing, concatenation).  *)
(***************************************************************************)
VecAdd(a, b) == [i \in DOMAIN a |-> a[i] + b[i]]
VecSub(a, b) == [i \in DOMAIN a |-> a[i] - b[i]]
Abs(x) == IF x < 0 THEN -x ELSE x
Min(a, b) == IF a < b THEN a ELSE b
RECURSIVE SumSeq(_)
SumSeq(s) == IF s = <<>> THEN 0 ELSE Head(s) + SumSeq(Tail(s))
\* v[:n]
Prefix(v, n) == SubSeq(v, 1, IF n < Len(v) THEN n ELSE Len(v))

\* ActorCriticPolicy._get_obs (axis 0 and axis 1 differ in the shape only)
_get_obs(obs, context) ==
    IF context # None THEN obs \o context ELSE obs

(***************************************************************************)
(* GoalConditionedPolicy.__init__: the closures chosen at construction.    *)
(***************************************************************************)
\* mutant: the relative goal is carried over unchanged
goal_transition_fn_fixed(obs0, goal, obs1) == goal

goal_transition_fn(obs0, goal, obs1) ==
    IF relative_goals THEN VecSub(VecAdd(obs0, goal), obs1) ELSE goal

worker_reward_scale == 1

\* hbaselines.utils.reward_fns.negative_distance on state_indices = [0],
\* offset 0: minus the L2 norm, which in one dimension is the absolute value
negative_distance(states, goals, next_states, relative_context) ==
    IF relative_context
    THEN -Abs(states[1] + goals[1] - next_states[1])
    ELSE -Abs(goals[1] - next_states[1])

\* mutant: the reward is computed on the goal of the period's first step
worker_reward_fn_first_goal(states, goals, next_states) ==
    negative_distance(states,
                      IF _meta_actions = <<>> THEN goals ELSE _meta_actions[1],
                      next_states, relative_goals)

worker_reward_fn(states, goals, next_states) ==
    negative_distance(states, goals, next_states, relative_goals)

\* mutant: the Manager is queried at every step
_update_meta_always == TRUE

\* mutant: the Manager is queried again after the first stored step
_update_meta_late == Len(_observations) <= 1

\* GoalConditionedPolicy._update_meta
_update_meta == Len(_observations) = 0

\* mutant: the end of the episode does not end the meta-period
meta_period_met_nodone(n, done) == n = meta_period

\* mutant: the meta-period is one step longer
meta_period_met_late(n, done) == n = meta_period + 1 \/ done

\* the condition of "Add a sample to the replay buffer" in store_transition
meta_period_met(n, done) == n = meta_period \/ done

\* mutant: the goals of the period are not cleared
clear_memory_keeps_goals ==
    [meta_reward |-> <<0>>, _observations |-> <<>>, _worker_actions |-> <<>>,
     _worker_rewards |-> <<>>, _dones |-> <<>>, _meta_actions |-> _meta_actions]

\* mutant: one accumulator is not cleared
clear_memory_keeps_dones ==
    [meta_reward |-> <<0>>, _observations |-> <<>>, _worker_actions |-> <<>>,
     _worker_rewards |-> <<>>, _dones |-> _dones, _meta_actions |-> <<>>]

\* mutant: the meta reward is not reset
clear_memory_keeps_reward ==
    [meta_reward |-> meta_reward, _observations |-> <<>>,
     _worker_actions |-> <<>>, _worker_rewards |-> <<>>, _dones |-> <<>>,
     _meta_actions |-> <<>>]

\* GoalConditionedPolicy.clear_memory: the new values of the fields it sets
clear_memory ==
    [meta_reward |-> <<0>>, _observations |-> <<>>, _worker_actions |-> <<>>,
     _worker_rewards |-> <<>>, _dones |-> <<>>, _meta_actions |-> <<>>]

\* mutant: the sample is given the goal of the period's last step
goal_t_last(meta_actions) == meta_actions[Len(meta_actions)]

\* "goal_t=self._meta_actions[0]" of store_transition
goal_t(meta_actions) == meta_actions[1]

\* mutant: evaluation samples are stored too
stores_sample_always(evaluate) == TRUE

\* "if not evaluate:" of GoalConditionedPolicy.store_transition
stores_sample(evaluate) == ~evaluate

\* "if not evaluate:" of FeedForwardPolicy.store_transition
ff_stores_sample(evaluate) == ~evaluate

\* ReplayBuffer.can_sample / HierReplayBuffer.can_sample
can_sample == Len(replay_buffer) >= batch_size

\* mutant: update() and get_td_map() never return early
not_enough_samples_never == FALSE

\* "if not self.replay_buffer.can_sample():" of update() and get_td_map()
not_enough_samples == ~can_sample

\* ReplayBuffer.add / HierReplayBuffer.add (capacity is never reached here)
buffer_add(buf, entry) == Append(buf, entry)

InGoalRange(g) == \A i \in DOMAIN g : g[i] >= -MaxGoal /\ g[i] <= MaxGoal


(***************************************************************************)
(* Network parameters.  A level holds an actor "pi" and twin critics       *)
(* "qf_0", "qf_1", each with a target copy.  A parameter vector is stood   *)
(* for by one integer; an optimizer step moves it, a soft update moves the *)
(* target halfway to the online value it reads (tau = 1/2).                *)
(***************************************************************************)
Nets == {"pi", "qf_0", "qf_1"}
Levels(kind) ==
    IF kind = "FeedForwardPolicy" THEN {"Model"} ELSE {"Manager", "Worker"}

\* tf.compat.v1.train.AdamOptimizer(...).minimize: one gradient step
optimizer_step(theta) == theta + 4

\* tf_util.get_target_updates, soft: target <- tau*online + (1-tau)*target
soft_update(target, online) == (target + online) \div 2

\* tf_util.get_target_updates, init: target <- online
init_update(target, online) == online

\* FeedForwardPolicy.initialize on one level's parameters
ff_initialize(p) ==
    [p EXCEPT !.target = [n \in Nets |-> init_update(p.target[n], p.online[n])]]

\* the values fetched for self.critic_loss and self.actor_loss (a computed
\* loss is stood for by a positive number)
critic_loss == 1
actor_loss == 2

\* mutant: the soft target update runs on every batched update
step_ops_soft_always(update_actor, actor_op) ==
    {"critic_optimizer_0", "critic_optimizer_1", "target_soft_updates"}
        \cup (IF update_actor THEN {actor_op} ELSE {})

\* The operations FeedForwardPolicy.update_from_batch hands to one sess.run
step_ops(update_actor, actor_op) ==
    {"critic_optimizer_0", "critic_optimizer_1"}
        \cup (IF update_actor THEN {actor_op, "target_soft_updates"} ELSE {})

\* mutant: the joint optimizer is given no var_list and steps every variable
\* of the level its objective depends on
optimizer_vars_cg_unrestricted(op) ==
    IF op \in {"critic_optimizer_0", "critic_optimizer_1"}
    THEN {"qf_0", "qf_1"}
    ELSE IF op = "actor_optimizer" THEN {"pi"}
    ELSE IF op = "cg_optimizer" THEN {"pi", "qf_0"}
    ELSE {}

\* The nets an optimizer operation steps: minimize(self.critic_loss) is given
\* no var_list, so it steps every trainable variable the critic loss depends
\* on, which are those of both critics; the actor optimizers are given the
\* variables under pi/
optimizer_vars(op) ==
    IF op \in {"critic_optimizer_0", "critic_optimizer_1"}
    THEN {"qf_0", "qf_1"}
    ELSE IF op \in {"actor_optimizer", "cg_optimizer"} THEN {"pi"}
    ELSE {}

RECURSIVE Steps(_, _)
\* theta after k optimizer steps
Steps(theta, k) == IF k = 0 THEN theta ELSE optimizer_step(Steps(theta, k - 1))

\* FeedForwardPolicy.update_from_batch on one level's parameters p.  The
\* session runs the fetched operations in no fixed order: reads[n] is the
\* number of optimizer steps net n has received when the soft update reads
\* its online value.
update_from_batch(p, update_actor, actor_op, reads) ==
    LET ops == step_ops(update_actor, actor_op)
        nsteps == [n \in Nets |->
                      Cardinality({o \in ops : n \in optimizer_vars(o)})]
        online1 == [n \in Nets |-> Steps(p.online[n], nsteps[n])]
        target1 == [n \in Nets |->
                       IF "target_soft_updates" \in ops
                       THEN soft_update(p.target[n],
                                Steps(p.online[n], Min(reads[n], nsteps[n])))
                       ELSE p.target[n]]
    IN  [params |-> [online |-> online1, target |-> target1],
         ops |-> ops,
         critic_loss |-> critic_loss,
         actor_loss |-> IF update_actor THEN actor_loss ELSE 0]

Reads == [Nets -> 0..2]
\* the orders that can be told apart: all of them when the soft update runs
ReadsFor(soft) ==
    IF soft THEN Reads ELSE {[n \in Nets |-> 0]}

(***************************************************************************)
(* History records.                                                        *)
(***************************************************************************)
NoCall == [op |-> "none", finalized |-> FALSE, added |-> FALSE,
           queried |-> FALSE, n |-> 0, done |-> FALSE, evaluate |-> FALSE,
           mgr |-> 0, can |-> FALSE, ops |-> {}, before |-> <<>>,
           calls |-> {}, written |-> {}, returned |-> {},
           worker_goal |-> <<>>]
NoEpisode == [n |-> 0, lens |-> <<>>, clean |-> TRUE, ended |-> FALSE]

(***************************************************************************)
(* Construction.                                                           *)
(***************************************************************************)
\* What FeedForwardPolicy.__init__ creates, in order
Components == <<"replay_buffer", "placeholders", "networks">>

\* FeedForwardPolicy.__init__ given layers (None, or <<list>>): the exception
\* it ends with and the components created by then.  The statements before
\* the replay buffer include "assert len(self.layers) >= 1"; with assertions
\* compiled out (python -O) the first use of self.layers is the loop over it
\* in make_actor.
ff_init(layers_arg, optimize) ==
    IF ~optimize /\ layers_arg = None
    THEN [err |-> "TypeError", built |-> {}]
    ELSE IF ~optimize /\ Len(layers_arg[1]) < 1
    THEN [err |-> "AssertionError", built |-> {}]
    ELSE IF layers_arg = None
    THEN [err |-> "TypeError", built |-> {"replay_buffer", "placeholders"}]
    ELSE [err |-> "none",
          built |-> {Components[i] : i \in DOMAIN Components}]

\* the attributes a constructed policy object starts with
Attributes(kind, period, relative, bsize, cg, opc) ==
    /\ policy = kind
    /\ connected_gradients = cg
    /\ off_policy_corrections = opc
    /\ meta_period = period
    /\ relative_goals = relative
    /\ batch_size = bsize
    /\ meta_action = None
    /\ meta_reward = None
    /\ prev_meta_obs = None
    /\ _observations = <<>>
    /\ _worker_actions = <<>>
    /\ _worker_rewards = <<>>
    /\ _dones = <<>>
    /\ _meta_actions = <<>>
    /\ replay_buffer = <<>>
    /\ params = [l \in Levels(kind) |->
                    [online |-> [n \in Nets |-> 0],
                     target |-> [n \in Nets |-> 2]]]
    /\ samples = 0
    /\ ret = None
    /\ h_last = NoCall
    /\ h_steps = <<>>
    /\ h_mgr = 0
    /\ h_buf = <<>>
    /\ h_obs = None
    /\ h_ep = NoEpisode
    /\ h_calls = [store |-> 0, update |-> 0, init |-> 0]

\* a policy built with one hidden layer
Construct(kind, period, relative, bsize, cg, opc) ==
    /\ Attributes(kind, period, relative, bsize, cg, opc)
    /\ layers = <<<<1>>>>
    /\ built = ff_init(layers, FALSE).built
    /\ err = ff_init(layers, FALSE).err

(***************************************************************************)
(* initialize(): called once, at the beginning of training.                *)
(***************************************************************************)
initialize ==
    /\ err = "none"
    /\ h_calls.init = 0
    /\ params' = [l \in DOMAIN params |-> ff_initialize(params[l])]
    /\ meta_reward' = IF policy = "GoalConditionedPolicy" THEN <<0>>
                      ELSE meta_reward
    /\ ret' = None
    /\ h_last' = [NoCall EXCEPT !.op = "initialize"]
    /\ h_calls' = [h_calls EXCEPT !.init = 1]
    /\ UNCHANGED <<conf_vars, meta_action,
                   prev_meta_obs, _observations, _worker_actions,
                   _worker_rewards, _dones, _meta_actions, replay_buffer,
                   samples, err, h_steps, h_mgr, h_buf, h_obs, h_ep>>

(***************************************************************************)
(* GoalConditionedPolicy.get_action(obs, context, apply_noise,             *)
(* random_actions).  manager_out is what self.manager.get_action returns   *)
(* when it is called, worker_out what self.worker.get_action returns.      *)
(***************************************************************************)
\* mutant: the Worker is handed the goal of the step before
worker_goal_before(old_meta_action, new_meta_action) == old_meta_action

\* the goal in "self.worker.get_action(obs, self.meta_action, ...)"
worker_goal(old_meta_action, new_meta_action) == new_meta_action

get_action(obs, context, manager_out, worker_out) ==
    LET goal_dim == Len(meta_action)
        new_meta_action ==
            IF _update_meta
            THEN manager_out
            ELSE goal_transition_fn(
                     Prefix(_observations[Len(_observations)], goal_dim),
                     meta_action,
                     Prefix(obs, goal_dim))
    IN  /\ err = "none"
        /\ policy = "GoalConditionedPolicy"
        /\ InGoalRange(new_meta_action)
        /\ meta_action' = new_meta_action
        /\ ret' = worker_out
        /\ h_last' = [NoCall EXCEPT !.op = "get_action",
                                    !.queried = _update_meta,
                                    !.n = Len(h_steps),
                                    !.mgr = h_mgr,
                                    !.before = IF meta_action = None THEN <<>>
                                               ELSE meta_action,
                                    !.worker_goal =
                                        worker_goal(meta_action,
                                                    new_meta_action)]
        /\ h_mgr' = IF _update_meta THEN Min(h_mgr + 1, 2) ELSE h_mgr
        /\ h_obs' = obs
        /\ UNCHANGED <<conf_vars,
                       meta_reward, prev_meta_obs, _observations,
                       _worker_actions, _worker_rewards, _dones, _meta_actions,
                       replay_buffer, params, samples, err, h_steps, h_buf,
                       h_ep, h_calls>>


(***************************************************************************)
(* GoalConditionedPolicy.store_transition(obs0, context0, action, reward,  *)
(* obs1, context1, done, evaluate).                                        *)
(***************************************************************************)
acc_vars == <<_observations, _worker_actions, _worker_rewards, _dones,
              _meta_actions>>

\* the episode history after one more completed step
EpisodeStep(finalized, added, len, done, evaluate) ==
    LET base == IF h_ep.ended THEN NoEpisode ELSE h_ep
    IN  [n |-> base.n + 1,
         lens |-> IF finalized /\ added THEN Append(base.lens, len)
                  ELSE base.lens,
         clean |-> base.clean /\ ~evaluate /\ (finalized => added),
         ended |-> done]

store_transition(obs0, context0, action, reward, obs1, context1, done, evaluate) ==
    LET \* the five appends
        worker_rewards1 == Append(_worker_rewards,
            worker_reward_scale * worker_reward_fn(obs0, meta_action, obs1))
        worker_actions1 == Append(_worker_actions, action)
        meta_actions1 == Append(_meta_actions, meta_action)
        observations1 == Append(_observations, _get_obs(obs0, meta_action))
        dones1 == Append(_dones, done)
        meta_reward1 == <<meta_reward[1] + reward>>
        prev_meta_obs1 == IF Len(observations1) = 1
                          THEN _get_obs(obs0, context0) ELSE prev_meta_obs
        finalize == meta_period_met(Len(observations1), done)
        \* "Add the last observation."
        observations2 == Append(observations1, _get_obs(obs1, meta_action))
        meta_obs1 == _get_obs(obs1, context1)
        sample == [obs_t |-> observations2,
                   goal_t |-> goal_t(meta_actions1),
                   action_t |-> worker_actions1,
                   reward_t |-> worker_rewards1,
                   done |-> dones1,
                   meta_obs_t |-> <<prev_meta_obs1, meta_obs1>>,
                   meta_reward_t |-> meta_reward1[1]]
        cleared == clear_memory
        steps1 == Append(h_steps, [evaluate |-> evaluate, reward |-> reward,
                                   obs0 |-> obs0, context0 |-> context0,
                                   goal |-> meta_action,
                                   worker_goal |-> h_last.worker_goal])
    IN  /\ err = "none"
        /\ policy = "GoalConditionedPolicy"
        /\ h_calls' = [h_calls EXCEPT !.store = @ + 1]
        /\ IF meta_action = None
           THEN \* self.meta_action.flatten() on None
                /\ err' = "AttributeError"
                /\ UNCHANGED <<conf_vars, meta_action, meta_reward,
                               prev_meta_obs, acc_vars, replay_buffer, params,
                               samples, ret, h_last, h_steps, h_mgr, h_buf,
                               h_obs, h_ep>>
           ELSE IF meta_reward = None
           THEN \* self.meta_reward += reward on None, after the appends
                /\ err' = "TypeError"
                /\ _worker_rewards' = worker_rewards1
                /\ _worker_actions' = worker_actions1
                /\ _meta_actions' = meta_actions1
                /\ _observations' = observations1
                /\ _dones' = dones1
                /\ UNCHANGED <<conf_vars, meta_action, meta_reward,
                               prev_meta_obs, replay_buffer, params, samples,
                               ret, h_last, h_steps, h_mgr, h_buf, h_obs,
                               h_ep>>
           ELSE /\ prev_meta_obs' = prev_meta_obs1
                /\ IF finalize
                   THEN /\ replay_buffer' =
                               IF stores_sample(evaluate)
                               THEN buffer_add(replay_buffer, sample)
                               ELSE replay_buffer
                        /\ h_buf' = IF replay_buffer' # replay_buffer
                                    THEN Append(h_buf, steps1) ELSE h_buf
                        /\ meta_reward' = cleared.meta_reward
                        /\ _observations' = cleared._observations
                        /\ _worker_actions' = cleared._worker_actions
                        /\ _worker_rewards' = cleared._worker_rewards
                        /\ _dones' = cleared._dones
                        /\ _meta_actions' = cleared._meta_actions
                        /\ h_steps' = <<>>
                        /\ h_mgr' = 0
                   ELSE /\ meta_reward' = meta_reward1
                        /\ _observations' = observations1
                        /\ _worker_actions' = worker_actions1
                        /\ _worker_rewards' = worker_rewards1
                        /\ _dones' = dones1
                        /\ _meta_actions' = meta_actions1
                        /\ h_steps' = steps1
                        /\ UNCHANGED <<replay_buffer, h_buf, h_mgr>>
                /\ ret' = None
                /\ h_last' = [NoCall EXCEPT
                                 !.op = "store_transition",
                                 !.finalized = finalize,
                                 !.added = (replay_buffer' # replay_buffer),
                                 !.n = Len(steps1),
                                 !.done = done,
                                 !.evaluate = evaluate,
                                 !.mgr = h_mgr,
                                 !.before = [obs0 |-> obs0,
                                             context0 |-> context0,
                                             obs1 |-> obs1,
                                             context1 |-> context1,
                                             action |-> action,
                                             goal |-> meta_action]]
                /\ h_ep' = EpisodeStep(finalize, replay_buffer' # replay_buffer,
                                       Len(worker_actions1), done, evaluate)
                /\ h_obs' = IF done THEN None ELSE obs1
                /\ UNCHANGED <<conf_vars, meta_action, params, samples, err>>

(***************************************************************************)
(* FeedForwardPolicy.store_transition.                                     *)
(***************************************************************************)
\* float(done)
float(b) == IF b THEN 1 ELSE 0

ff_store_transition(obs0, context0, action, reward, obs1, context1, done, evaluate) ==
    /\ err = "none"
    /\ policy = "FeedForwardPolicy"
    /\ h_calls' = [h_calls EXCEPT !.store = @ + 1]
    /\ replay_buffer' =
           IF ff_stores_sample(evaluate)
           THEN buffer_add(replay_buffer,
                           <<_get_obs(obs0, context0), action, reward,
                             _get_obs(obs1, context1), float(done)>>)
           ELSE replay_buffer
    /\ ret' = None
    /\ h_last' = [NoCall EXCEPT !.op = "store_transition",
                                !.added = (replay_buffer' # replay_buffer),
                                !.done = done,
                                !.evaluate = evaluate]
    /\ UNCHANGED <<conf_vars, meta_action, meta_reward, prev_meta_obs, acc_vars,
                   params, samples, err, h_steps, h_mgr, h_buf, h_obs, h_ep>>


(***************************************************************************)
(* update() and get_td_map().                                              *)
(***************************************************************************)
Loss(r) == <<r.critic_loss, r.actor_loss>>

Qualified(level, ops) == {<<level, o>> : o \in ops}

\* the array of the sampled batch that update() passes as actions= to the
\* batched update of a level: the Manager is given meta_act, the goals as
\* they were logged, whatever self.off_policy_corrections is
batch_actions(level) ==
    IF level = "Manager" THEN "meta_act"
    ELSE IF level = "Worker" THEN "worker_act" ELSE "actions"

\* record of one batched update made by update(): the level it was made on,
\* the method called and the update_actor argument it was given
BatchCall(level, fn, update_actor) ==
    [level |-> level, fn |-> fn, update_actor |-> update_actor,
     actions |-> batch_actions(level)]

upd_unchanged == <<conf_vars, meta_action, meta_reward, prev_meta_obs, acc_vars,
                   replay_buffer, h_steps, h_mgr, h_buf, h_obs, h_ep>>

\* FeedForwardPolicy.update(update_actor, **kwargs)
ff_update(update_actor, reads) ==
    LET r == update_from_batch(params["Model"], update_actor,
                               "actor_optimizer", reads)
    IN  /\ err = "none"
        /\ policy = "FeedForwardPolicy"
        /\ h_calls' = [h_calls EXCEPT !.update = @ + 1]
        /\ IF not_enough_samples
           THEN /\ ret' = <<0, 0>>
                /\ h_last' = [NoCall EXCEPT !.op = "update", !.can = FALSE]
                /\ UNCHANGED <<params, samples>>
           ELSE /\ samples' = samples + 1
                /\ params' = [params EXCEPT !["Model"] = r.params]
                /\ ret' = Loss(r)
                /\ h_last' = [NoCall EXCEPT !.op = "update", !.can = TRUE,
                                 !.ops = Qualified("Model", r.ops),
                                 !.calls = {BatchCall("Model",
                                     "update_from_batch", update_actor)}]
        /\ UNCHANGED <<upd_unchanged, err>>

\* mutant: the Manager is updated whatever update_meta is
updates_manager_always(update_meta) == TRUE

\* "if kwargs['update_meta']:" of GoalConditionedPolicy.update
updates_manager(update_meta) == update_meta = <<TRUE>>

\* GoalConditionedPolicy.update(update_actor, **kwargs); a keyword that is
\* not passed is None
update(update_actor, update_meta, update_meta_actor, reads_m, reads_w) ==
    LET m == update_from_batch(
                 params["Manager"], update_meta_actor = <<TRUE>>,
                 IF connected_gradients THEN "cg_optimizer"
                 ELSE "actor_optimizer",
                 reads_m)
        w == update_from_batch(params["Worker"], update_actor,
                               "actor_optimizer", reads_w)
    IN  /\ err = "none"
        /\ policy = "GoalConditionedPolicy"
        /\ h_calls' = [h_calls EXCEPT !.update = @ + 1]
        /\ IF not_enough_samples
           THEN /\ ret' = <<<<0, 0>>, <<0, 0>>>>
                /\ h_last' = [NoCall EXCEPT !.op = "update", !.can = FALSE]
                /\ UNCHANGED <<params, samples, err>>
           ELSE /\ samples' = samples + 1
                /\ IF update_meta = None
                      \/ (updates_manager(update_meta)
                             /\ update_meta_actor = None)
                   THEN \* kwargs['update_meta'], kwargs['update_meta_actor']
                        /\ err' = "KeyError"
                        /\ UNCHANGED <<params, ret, h_last>>
                   ELSE /\ params' =
                              [params EXCEPT
                                  !["Manager"] = IF updates_manager(update_meta)
                                                 THEN m.params ELSE @,
                                  !["Worker"] = w.params]
                        /\ ret' =
                              LET ml == IF updates_manager(update_meta) THEN Loss(m)
                                        ELSE <<0, 0>>
                                  wl == Loss(w)
                              IN  <<<<ml[1], wl[1]>>, <<ml[2], wl[2]>>>>
                        /\ h_last' =
                              [NoCall EXCEPT
                                  !.op = "update", !.can = TRUE,
                                  !.before =
                                      [update_actor |-> update_actor,
                                       update_meta |-> update_meta,
                                       update_meta_actor |->
                                           IF updates_manager(update_meta)
                                           THEN update_meta_actor
                                           ELSE None],
                                  !.ops = (IF updates_manager(update_meta)
                                           THEN Qualified("Manager", m.ops)
                                           ELSE {})
                                          \cup Qualified("Worker", w.ops),
                                  !.calls =
                                      (IF updates_manager(update_meta)
                                       THEN {BatchCall("Manager",
                                           IF connected_gradients
                                           THEN "_connected_gradients_update"
                                           ELSE "update_from_batch",
                                           update_meta_actor = <<TRUE>>)}
                                       ELSE {})
                                      \cup {BatchCall("Worker",
                                          "update_from_batch", update_actor)}]
                        /\ UNCHANGED err
        /\ UNCHANGED upd_unchanged

\* FeedForwardPolicy.get_td_map_from_batch: the keys of the map it builds
get_td_map_from_batch(level) ==
    {<<level, ph>> : ph \in {"obs_ph", "action_ph", "rew_ph", "obs1_ph",
                             "terminals1"}}

\* FeedForwardPolicy.get_td_map and GoalConditionedPolicy.get_td_map
get_td_map ==
    /\ err = "none"
    /\ h_calls' = [h_calls EXCEPT !.update = @ + 1]
    /\ IF not_enough_samples
       THEN /\ ret' = {}
            /\ h_last' = [NoCall EXCEPT !.op = "get_td_map", !.can = FALSE]
            /\ UNCHANGED samples
       ELSE /\ samples' = samples + 1
            /\ ret' = UNION {get_td_map_from_batch(l) : l \in Levels(policy)}
            /\ h_last' = [NoCall EXCEPT !.op = "get_td_map", !.can = TRUE]
    /\ UNCHANGED <<upd_unchanged, params, err>>


(***************************************************************************)
(* Specifications.  Each is one environment of the policy object.          *)
(***************************************************************************)
Bools == {FALSE, TRUE}

\* Spec: rollouts.  Any interleaving of initialize, get_action and
\* store_transition on either policy class; rewards, done flags, evaluate
\* flags and the Manager's goals vary freely, the observation is constant.
Init ==
    \E kind \in PolicyKinds, period \in 1..MaxPeriod :
        /\ kind = "FeedForwardPolicy" => period = 1
        /\ Construct(kind, period, TRUE, 1, FALSE, FALSE)

Initialize == initialize

GetAction ==
    \E manager_out \in GoalVals :
        get_action(<<0>>, None, manager_out, <<0>>)

StoreTransition ==
    /\ h_calls.store < MaxCalls
    /\ \E reward \in RewVals, done \in Bools, evaluate \in Bools :
           store_transition(<<0>>, None, <<0>>, reward, <<0>>, None, done,
                            evaluate)

FFStoreTransition ==
    /\ h_calls.store < MaxCalls
    /\ \E obs0 \in ObsVals, reward \in RewVals, obs1 \in ObsVals,
          done \in Bools, evaluate \in Bools :
           ff_store_transition(obs0, None, <<0>>, reward, obs1, None, done,
                               evaluate)

Next ==
    \/ Initialize
    \/ GetAction
    \/ StoreTransition
    \/ FFStoreTransition

Spec == Init /\ [][Next]_vars

\* SpecAlt: training rollouts (evaluate = False) of the hierarchy controller.
\* initialize comes first, then get_action and store_transition alternate:
\* store_transition passes the observation its get_action was given and the
\* action it returned, and the next get_action is given that step's obs1
\* unless the episode ended.  Observations, goals and done flags vary.
InitAlt ==
    \E period \in 1..MaxAltPeriod, relative \in Bools :
        Construct("GoalConditionedPolicy", period, relative, 1, FALSE, FALSE)

AltInitialize ==
    /\ h_last.op = "none"
    /\ initialize

AltGetAction ==
    /\ h_last.op \in {"initialize", "store_transition"}
    /\ \E obs \in (IF h_obs = None THEN ObsVals ELSE {h_obs}),
          manager_out \in (IF _update_meta THEN GoalVals ELSE {<<0>>}) :
           get_action(obs, None, manager_out, <<0>>)

AltStoreTransition ==
    /\ h_last.op = "get_action"
    /\ h_calls.store < MaxAltCalls
    /\ \E obs1 \in ObsVals, done \in Bools :
           store_transition(h_obs, None, ret, 0, obs1, None, done, FALSE)

NextAlt ==
    \/ AltInitialize
    \/ AltGetAction
    \/ AltStoreTransition

SpecAlt == InitAlt /\ [][NextAlt]_vars

\* SpecStep: rollouts of the alternating protocol in which the evaluate flag
\* varies as well, from one meta-period to the next, and the contexts where
\* store_transition reads them: with the first step of a period a context0
\* is passed, with the last a context1 that differs from every context0.
InitStep ==
    \E period \in 1..MaxStepPeriod, relative \in Bools :
        Construct("GoalConditionedPolicy", period, relative, 1, FALSE, FALSE)

StepStoreTransition ==
    /\ h_last.op = "get_action"
    /\ h_calls.store < MaxStepCalls
    /\ \E obs1 \in ObsVals, done \in Bools,
          evaluate \in (IF h_steps = <<>> THEN Bools
                        ELSE {h_steps[1].evaluate}) :
       \E context0 \in (IF _update_meta THEN CtxVals ELSE {None}),
          context1 \in (IF meta_period_met(Len(_observations) + 1, done)
                        THEN {<<1>>} ELSE {None}) :
           store_transition(h_obs, context0, ret, 0, obs1, context1, done,
                            evaluate)

NextStep ==
    \/ AltInitialize
    \/ AltGetAction
    \/ StepStoreTransition

SpecStep == InitStep /\ [][NextStep]_vars

\* SpecEpisode: training episodes (evaluate = False) of the alternating
\* protocol with constant data; only the step at which done is passed varies.
InitEpisode ==
    \E period \in 1..MaxEpPeriod :
        Construct("GoalConditionedPolicy", period, TRUE, 1, FALSE, FALSE)

EpInitialize ==
    /\ h_last.op = "none"
    /\ initialize

EpGetAction ==
    /\ h_last.op \in {"initialize", "store_transition"}
    /\ get_action(<<0>>, None, <<0>>, <<0>>)

EpStoreTransition ==
    /\ h_last.op = "get_action"
    /\ h_calls.store < MaxEpSteps
    /\ \E done \in Bools :
           store_transition(h_obs, None, ret, 1, <<0>>, None, done, FALSE)

NextEpisode ==
    \/ EpInitialize
    \/ EpGetAction
    \/ EpStoreTransition

SpecEpisode == InitEpisode /\ [][NextEpisode]_vars

\* SpecTrain: training.  Transitions with constant data fill the buffer
\* (meta_period 1, batch size 2) while update() and get_td_map() are called
\* with any flags and keyword arguments.
InitTrain ==
    \E kind \in PolicyKinds, cg \in Bools, opc \in Bools :
        /\ kind = "FeedForwardPolicy" => ~cg /\ ~opc
        /\ Construct(kind, 1, TRUE, 2, cg, opc)

TrainInitialize == initialize

TrainGetAction ==
    /\ h_last.op # "get_action"
    /\ get_action(<<0>>, None, <<0>>, <<0>>)

TrainStoreTransition ==
    /\ h_last.op = "get_action"
    /\ h_calls.store < MaxTrainStores
    /\ store_transition(h_obs, None, ret, 1, <<0>>, None, FALSE, FALSE)

TrainFFStoreTransition ==
    /\ h_calls.store < MaxTrainStores
    /\ ff_store_transition(<<0>>, None, <<0>>, 1, <<0>>, None, FALSE, FALSE)

\* The training runs draw, for each net, a soft update that reads the online
\* value either before every optimizer step or after all of them
TrainReads(soft) == {r \in ReadsFor(soft) : \A n \in Nets : r[n] \in {0, 2}}

TrainUpdate ==
    /\ h_calls.update < MaxUpdates
    /\ \E update_actor \in Bools, update_meta \in KwVals,
          update_meta_actor \in KwVals :
       \E reads_m \in TrainReads(update_meta = <<TRUE>>
                                /\ update_meta_actor = <<TRUE>>),
          reads_w \in TrainReads(update_actor) :
           update(update_actor, update_meta, update_meta_actor, reads_m,
                  reads_w)

TrainFFUpdate ==
    /\ h_calls.update < MaxUpdates
    /\ \E update_actor \in Bools :
       \E reads \in TrainReads(update_actor) :
           ff_update(update_actor, reads)

TrainGetTdMap ==
    /\ h_calls.update < MaxUpdates
    /\ get_td_map

NextTrain ==
    \/ TrainInitialize
    \/ TrainGetAction
    \/ TrainStoreTransition
    \/ TrainFFStoreTransition
    \/ TrainUpdate
    \/ TrainFFUpdate
    \/ TrainGetTdMap

SpecTrain == InitTrain /\ [][NextTrain]_vars


\* SpecBuild: a Feed-Forward policy is constructed with any layers argument,
\* with assertions enabled or compiled out, and then trained.
LayerSpecs == {None, <<<<>>>>, <<<<1>>>>, <<<<1, 1>>>>}

InitBuild ==
    \E layers_arg \in LayerSpecs, optimize \in Bools :
        /\ Attributes("FeedForwardPolicy", 1, FALSE, 2, FALSE, FALSE)
        /\ layers = layers_arg
        /\ built = ff_init(layers_arg, optimize).built
        /\ err = ff_init(layers_arg, optimize).err

NextBuild ==
    \/ TrainInitialize
    \/ TrainFFStoreTransition
    \/ TrainFFUpdate
    \/ TrainGetTdMap

SpecBuild == InitBuild /\ [][NextBuild]_vars


(***************************************************************************)
(* Properties.                                                             *)
(***************************************************************************)
Hier == policy = "GoalConditionedPolicy"

RECURSIVE ExpectedLens(_, _)
\* floor(N/P) periods of P steps, then one of N mod P steps if N mod P # 0
ExpectedLens(N, P) ==
    IF N = 0 THEN <<>>
    ELSE IF N >= P THEN <<P>> \o ExpectedLens(N - P, P)
    ELSE <<N>>

CeilDiv(N, P) == (N + P - 1) \div P

\* C1: a training episode of N alternating get_action/store_transition steps
\* whose only done=True is on step N adds exactly ceil(N/P) meta-transitions,
\* floor(N/P) of P worker actions followed by one of N mod P when N mod P # 0
\* (so a done on the P-th step of a period finalizes once); for P = 5 and
\* N = 12 the lengths are 5, 5, 2.
C1_EpisodeMetaTransitions ==
    (h_ep.ended /\ h_ep.clean) =>
        /\ h_ep.lens = ExpectedLens(h_ep.n, meta_period)
        /\ Len(h_ep.lens) = CeilDiv(h_ep.n, meta_period)
        /\ Len(replay_buffer) >= Len(h_ep.lens)
        /\ \A i \in 1..Len(h_ep.lens) :
               Len(replay_buffer[Len(replay_buffer) - Len(h_ep.lens) + i]
                       .action_t) = h_ep.lens[i]
        /\ (meta_period = 5 /\ h_ep.n = 12) => h_ep.lens = <<5, 5, 2>>

C1_Witness ==
    /\ h_ep.ended /\ h_ep.clean
    /\ meta_period = 5 /\ h_ep.n = 12
    /\ Len(replay_buffer) = 3
    /\ Len(replay_buffer[3].action_t) = 2

\* C2: every meta-transition in the hierarchical replay buffer has one more
\* worker observation than worker actions, as many intrinsic rewards and done
\* flags as actions, and a length L with 1 <= L <= meta_period, where
\* L < meta_period only if its last step had done = True.
C2_MetaTransitionShape ==
    Hier =>
        \A i \in 1..Len(replay_buffer) :
            LET e == replay_buffer[i]
                L == Len(e.action_t)
            IN  /\ Len(e.obs_t) = L + 1
                /\ Len(e.reward_t) = L
                /\ Len(e.done) = L
                /\ 1 <= L /\ L <= meta_period
                /\ (L < meta_period => e.done[L])

C2_Witness ==
    /\ Hier
    /\ \E i, j \in 1..Len(replay_buffer) :
           /\ Len(replay_buffer[i].action_t) < meta_period
           /\ Len(replay_buffer[j].action_t) = meta_period
           /\ ~replay_buffer[j].done[meta_period]

AccumulatorsEmpty ==
    /\ _observations = <<>>
    /\ _worker_actions = <<>>
    /\ _worker_rewards = <<>>
    /\ _dones = <<>>
    /\ _meta_actions = <<>>

\* C3: a store_transition call finalizes the meta-transition if and only if
\* the number of steps stored since the last finalization has reached
\* meta_period or its done flag is true; right after a finalization, in an
\* evaluation or not, every accumulator is empty, meta_reward is 0 and the next
\* get_action takes its goal from the Manager.
C3_FinalizationRule ==
    (Hier /\ h_last.op = "store_transition") =>
        /\ h_last.finalized <=> (h_last.n >= meta_period \/ h_last.done)
        /\ h_last.finalized =>
               (AccumulatorsEmpty /\ meta_reward = <<0>> /\ _update_meta)
        /\ ~h_last.finalized =>
               (Len(_observations) = h_last.n /\ ~_update_meta)

C3_Witness ==
    /\ Hier /\ h_last.op = "store_transition"
    /\ h_last.finalized /\ h_last.evaluate /\ ~h_last.done
    /\ h_last.n = meta_period /\ meta_period > 1
    /\ AccumulatorsEmpty

\* C4: when get_action and store_transition alternate, the Manager is queried
\* exactly once per meta-period, on the first get_action after a finalization
\* or after construction; every other get_action derives the goal from the
\* previous goal with goal_transition_fn.
C4_OneManagerQueryPerPeriod ==
    /\ h_mgr <= 1
    /\ (h_last.op = "store_transition" /\ h_last.finalized) => h_last.mgr = 1
    /\ h_last.op = "get_action" =>
           /\ h_last.queried <=> h_last.n = 0
           /\ h_last.queried <=> h_last.mgr = 0
           /\ ~h_last.queried =>
                  meta_action =
                      IF relative_goals
                      THEN VecSub(VecAdd(
                               Prefix(_observations[Len(_observations)],
                                      Len(h_last.before)),
                               h_last.before),
                               Prefix(h_obs, Len(h_last.before)))
                      ELSE h_last.before

C4_Witness ==
    /\ h_last.op = "get_action" /\ ~h_last.queried
    /\ Len(replay_buffer) >= 1
    /\ h_mgr = 1

\* C5 as stated: once get_action has queried the Manager, no further
\* get_action before the finalization queries it again, also when no
\* store_transition came in between: at most one query between finalizations.
C5_AtMostOneQuery == h_mgr <= 1

\* C5 as amended: get_action queries the Manager exactly when no step has been
\* stored since the last finalization (or construction), so repeated
\* get_action calls before the first store_transition each query it, and no
\* get_action after a stored step and before the finalization does.
C5_QueryIffNothingStored ==
    (Hier /\ h_last.op = "get_action") =>
        /\ h_last.queried <=> h_last.n = 0
        /\ err = "none" => h_last.n = Len(_observations)

C5_Witness ==
    /\ Hier /\ h_last.op = "get_action" /\ h_last.queried
    /\ h_mgr = 2
    /\ h_last.before # <<>> /\ Len(replay_buffer) >= 1

\* C6: on a non-decision get_action the goal becomes
\* goal_transition_fn(obs0, old_goal, obs1) with obs0 the first goal_dim
\* entries of the last stored observation and obs1 those of the current one;
\* so under relative framing obs[:goal_dim] + goal is the same at every step
\* of the meta-period, and under absolute framing the goal is.
C6_GoalTransition ==
    LET d == Len(meta_action)
        Target(obs, goal) == IF relative_goals
                             THEN VecAdd(Prefix(obs, d), goal) ELSE goal
    IN  /\ \A i \in 1..Len(_observations) :
               /\ _observations[i][d + 1] = _meta_actions[i][1]
               /\ Target(_observations[i], _meta_actions[i])
                      = Target(_observations[1], _meta_actions[1])
        /\ (h_last.op = "get_action" /\ ~h_last.queried) =>
               /\ Target(h_obs, meta_action)
                      = Target(_observations[1], _meta_actions[1])
               /\ relative_goals =>
                      meta_action[1] = _observations[Len(_observations)][1]
                                           + h_last.before[1] - h_obs[1]

C6_Witness ==
    /\ h_last.op = "get_action" /\ ~h_last.queried
    /\ relative_goals
    /\ Len(_observations) >= 2
    /\ meta_action # _meta_actions[1]
    /\ _meta_actions[2] # _meta_actions[1]

\* C7: on either policy class a store_transition call with evaluate=True
\* leaves the replay buffer as it was, whatever came before and whatever the
\* other arguments are.
C7_EvaluateLeavesBuffer ==
    [][(h_calls'.store # h_calls.store /\ h_last'.op = "store_transition"
            /\ h_last'.evaluate)
           => replay_buffer' = replay_buffer]_vars

C7_Witness ==
    /\ Hier /\ h_last.op = "store_transition"
    /\ h_last.evaluate /\ h_last.finalized /\ h_last.done
    /\ h_last.n = meta_period
    /\ Len(replay_buffer) >= 1

\* C8: no data and no reward supplied in an evaluate=True store_transition call
\* is part of a meta-transition added to the hierarchical replay buffer.
C8_NoEvaluationData ==
    \A i \in 1..Len(h_buf) :
        \A j \in 1..Len(h_buf[i]) : ~h_buf[i][j].evaluate

RewardsOf(steps) == [j \in 1..Len(steps) |-> steps[j].reward]

\* C9: after initialize(), the meta-reward stored with a meta-transition is
\* the sum of the environment rewards passed to store_transition for exactly
\* the steps of its meta-period, and meta_reward is 0 at the start of every
\* period.
C9_MetaReward ==
    (Hier /\ meta_reward # None /\ err = "none") =>
        /\ \A i \in 1..Len(replay_buffer) :
               replay_buffer[i].meta_reward_t = SumSeq(RewardsOf(h_buf[i]))
        /\ meta_reward[1] = SumSeq(RewardsOf(h_steps))
        /\ Len(h_steps) = 0 => meta_reward = <<0>>

C9_Witness ==
    /\ Hier
    /\ Len(replay_buffer) >= 2
    /\ replay_buffer[1].meta_reward_t = 2
    /\ replay_buffer[2].meta_reward_t = 0
    /\ \E j \in 1..Len(replay_buffer[2].reward_t) :
           replay_buffer[2].reward_t[j] # 0

ZeroLosses ==
    IF policy = "FeedForwardPolicy" THEN <<0, 0>> ELSE <<<<0, 0>>, <<0, 0>>>>

\* C10: while the replay buffer cannot supply a batch, update() returns zero
\* losses and get_td_map() an empty map, and neither raises, draws a sample
\* nor changes an online or target parameter, whatever flags and keyword
\* arguments are passed.
C10_NoBatchNoUpdate ==
    [][(h_calls'.update # h_calls.update /\ ~can_sample) =>
           /\ err' = "none"
           /\ samples' = samples
           /\ params' = params
           /\ h_last'.op \in {"update", "get_td_map"}
           /\ h_last'.op = "update" => ret' = ZeroLosses
           /\ h_last'.op = "get_td_map" => ret' = {}]_vars

C10_Witness ==
    /\ Hier /\ h_last.op = "update" /\ ~h_last.can
    /\ ret = ZeroLosses
    /\ Len(replay_buffer) = 1
    /\ h_calls.init = 1


(***************************************************************************)
(* C11: update_from_batch steps both online critics on every call; the     *)
(* actor step and the soft update of the target networks run if and only   *)
(* if update_actor is true; with update_actor false the actor and every    *)
(* target parameter are unchanged and the returned actor loss is 0.        *)
(***************************************************************************)
Critics == {"qf_0", "qf_1"}

\* the actor loss update() returns for a level
RetActorLoss(level, r) ==
    IF level = "Model" THEN r[2]
    ELSE IF level = "Manager" THEN r[2][1] ELSE r[2][2]

\* C11: every update_from_batch call steps both online critics, runs the actor
\* optimizer and the soft target update exactly when update_actor is true,
\* and with update_actor false leaves the actor and all targets unchanged
\* and returns an actor loss of 0.  (An update() that raises makes no batched
\* update and leaves the record of the calls before it.)
C11_CriticsAlwaysActorIffFlag ==
    [][\A c \in h_last'.calls :
          (err' = "none" /\ c.fn = "update_from_batch") =>
              LET p == params[c.level]
                  q == params'[c.level]
                  ran(o) == <<c.level, o>> \in h_last'.ops
              IN  /\ ran("critic_optimizer_0") /\ ran("critic_optimizer_1")
                  /\ \A n \in Critics : q.online[n] # p.online[n]
                  /\ ran("actor_optimizer") <=> c.update_actor
                  /\ ran("target_soft_updates") <=> c.update_actor
                  /\ c.update_actor => q.online["pi"] # p.online["pi"]
                  /\ ~c.update_actor =>
                         /\ q.online["pi"] = p.online["pi"]
                         /\ q.target = p.target
                         /\ RetActorLoss(c.level, ret') = 0]_vars

\* an update() has just run update_from_batch on the Manager with
\* update_actor true and on the Worker with update_actor false
C11_Witness ==
    /\ h_last.op = "update"
    /\ BatchCall("Manager", "update_from_batch", TRUE) \in h_last.calls
    /\ BatchCall("Worker", "update_from_batch", FALSE) \in h_last.calls


(***************************************************************************)
(* C12: within one batched update with update_actor true the soft update   *)
(* of a level's targets is applied after that level's optimizer steps, so  *)
(* it interpolates toward the post-step online parameters.                 *)
(***************************************************************************)
\* C12: after every batched update with update_actor true, each target of the
\* level is the soft update of its old value toward the online value the
\* level holds after the update's optimizer steps
C12_SoftUpdateReadsPostStep ==
    [][\A c \in h_last'.calls :
          c.update_actor =>
              \A n \in Nets :
                  params'[c.level].target[n] =
                      soft_update(params[c.level].target[n],
                                  params'[c.level].online[n])]_vars


(***************************************************************************)
(* Tensors of FeedForwardPolicy.__init__ and FeedForwardPolicy.get_action, *)
(* evaluated once on drawn inputs.  Numbers are integers; an action is     *)
(* counted in units of 1/Scale so that the halves of make_actor and the    *)
(* multiples of 1/TanhDen are whole.                                       *)
(***************************************************************************)
Max(a, b) == IF a > b THEN a ELSE b

\* mutant: no clipping
clip_none(x, lo, hi) == x

\* np.clip / tf.clip_by_value
clip(x, lo, hi) == Min(Max(x, lo), hi)

Scale == 2 * TanhDen

\* FeedForwardPolicy.make_actor: ac_means + ac_magnitudes * tanh(.), in action
\* units; t is the tanh output in units of 1/TanhDen
make_actor(t, low, high) == (high + low) * TanhDen + (high - low) * t

\* noisy_actor_target of FeedForwardPolicy.__init__
noisy_actor_target(actor_target, target_noise, target_noise_clip, low, high) ==
    clip(actor_target
             + clip(target_noise, -target_noise_clip, target_noise_clip),
         low, high)

\* mutant: the first target critic alone
q_obs1_first(critic_target) == critic_target["qf_0"]

\* q_obs1 = tf.minimum(critic_target[0], critic_target[1])
q_obs1(critic_target) == Min(critic_target["qf_0"], critic_target["qf_1"])

\* self.target_q
target_q(rew_ph, terminals1, gamma, critic_target) ==
    rew_ph + (1 - terminals1) * gamma * q_obs1(critic_target)

\* what an evaluation leaves alone
eval_unchanged == <<conf_vars, meta_action, meta_reward, prev_meta_obs,
                    acc_vars, replay_buffer, params, samples, err, h_steps,
                    h_mgr, h_buf, h_obs, h_ep, h_calls>>

\* One evaluation of self.target_q: the target critics are fed obs1_ph and
\* noisy_actor_target and put out critic_target
run_target_q(rew_ph, terminals1, gamma, obs1_ph, actor_target, target_noise, critic_target) ==
    LET action == noisy_actor_target(actor_target, target_noise, Scale,
                                     -Scale, Scale)
    IN  /\ err = "none"
        /\ policy = "FeedForwardPolicy"
        /\ h_last.op = "none"
        /\ ret' = [target_q |-> target_q(rew_ph, terminals1, gamma,
                                         critic_target),
                   critic_obs |-> obs1_ph,
                   critic_action |-> action]
        /\ h_last' = [NoCall EXCEPT
                         !.op = "target_q",
                         !.before = [rew_ph |-> rew_ph,
                                     terminals1 |-> terminals1,
                                     gamma |-> gamma,
                                     obs1_ph |-> obs1_ph,
                                     actor_target |-> actor_target,
                                     target_noise |-> target_noise,
                                     critic_target |-> critic_target]]
        /\ UNCHANGED eval_unchanged

\* FeedForwardPolicy.get_action: t is the tanh output of the actor, normal the
\* draw of np.random.normal, sample the draw of self.ac_space.sample()
ff_get_action(t, apply_noise, random_actions, normal, sample, low, high) ==
    LET actor_tf == make_actor(t, low, high)
        noisy == actor_tf + normal
        action == IF random_actions THEN sample
                  ELSE IF apply_noise
                       THEN clip(noisy, low * Scale, high * Scale)
                       ELSE actor_tf
    IN  /\ err = "none"
        /\ policy = "FeedForwardPolicy"
        /\ h_last.op = "none"
        /\ ret' = action
        /\ h_last' = [NoCall EXCEPT
                         !.op = "ff_get_action",
                         !.before = [low |-> low * Scale,
                                     high |-> high * Scale,
                                     apply_noise |-> apply_noise,
                                     random_actions |-> random_actions,
                                     noisy |-> noisy]]
        /\ UNCHANGED eval_unchanged

(***************************************************************************)
(* GoalConditionedPolicy._sample.  A 2-d array is a sequence of rows, a    *)
(* 3-d array a sequence of 2-d arrays; goals are counted in units in which *)
(* sc * spec_range / 2 is whole.                                           *)
(***************************************************************************)
\* numpy: the entries of a 2-d array in row-major order (ndarray.flatten)
flatten(m) ==
    LET cols == Len(m[1])
    IN  [i \in 1..(Len(m) * cols) |->
            m[((i - 1) \div cols) + 1][((i - 1) % cols) + 1]]

\* numpy: v repeated reps times along its axis (a row of np.tile(v, (n, reps)))
tile(v, reps) == [i \in 1..(Len(v) * reps) |-> v[((i - 1) % Len(v)) + 1]]

\* mutant: the rows are reshaped without being transposed
transpose_none(m) == m

\* numpy: ndarray.T of a 2-d array
transpose(m) == [i \in 1..Len(m[1]) |-> [j \in 1..Len(m) |-> m[j][i]]]

\* numpy: ndarray.reshape((d1, d2, d3)) of a 2-d array
reshape(m, d1, d2, d3) ==
    LET f == flatten(m)
    IN  [b \in 1..d1 |-> [g \in 1..d2 |-> [j \in 1..d3 |->
            f[((b - 1) * d2 + (g - 1)) * d3 + j]]]]

(***************************************************************************)
(* Memory of the arrays of goal correction.  An array lives in one or more *)
(* buffers, named after the variable that holds it; an in-place operation  *)
(* writes the buffers of its target.                                       *)
(***************************************************************************)
\* the arrays of the sampled batch handed to goal correction
BatchArrays ==
    {"states", "next_states", "orig_goals", "low_states", "low_actions"}

\* mutant: the result shares the buffers of its operands
allocated_shared(name, operands) == {name} \cup UNION operands

\* the buffers of the result of a numpy operation that allocates its result:
\* arithmetic, flatten(), np.tile, np.vstack, np.minimum, np.maximum, and
\* the tensors TensorFlow returns
allocated(name, operands) == {name}

\* the buffers of a view: basic slicing, .T, reshape
view(operand) == operand

\* the buffers of the array _sample returns
_sample_buffers ==
    LET diff == allocated("diff",
                    {view(allocated("next_states - states",
                                    {{"next_states"}, {"states"}}))})
        loc == allocated("loc", {diff})
        drawn == allocated("samples", {loc, allocated("scale", {})})
        stacked == allocated("samples", {drawn, diff,
                                 allocated("flatten", {{"orig_goals"}})})
        clipped == allocated("samples", {stacked,
                                 allocated("minimum", {}),
                                 allocated("maximum", {})})
    IN  view(view(clipped))

\* the buffers td3.py's _log_probs writes in place when it scores the
\* candidates held in meta_actions: its only in-place operation is the +=
\* on tiled_goals_per_sample, under relative goals
_log_probs_writes(meta_actions) ==
    LET goals_per_sample == view(view(meta_actions))
        tiled_goals_per_sample ==
            view(allocated("tiled_goals_per_sample", {goals_per_sample}))
    IN  IF relative_goals THEN tiled_goals_per_sample ELSE {}

\* sc = 0.5, the default of _sample
sc_num == 1
sc_den == 2

\* GoalConditionedPolicy._sample; normal is the (num_samples - 2) x
\* (goal_dim * batch_size) array np.random.normal draws, low and high the
\* bounds of self.manager.ac_space
_sample(states, next_states, num_samples, orig_goals, normal, low, high) ==
    LET batch == Len(orig_goals)
        goal_dim == Len(orig_goals[1])
        spec_range == VecSub(high, low)
        diff == flatten([b \in 1..batch |->
                    Prefix(VecSub(next_states[b], states[b]), goal_dim)])
        scale == tile([g \in 1..goal_dim |->
                          (sc_num * spec_range[g]) \div (sc_den * 2)], batch)
        drawn == [j \in 1..(num_samples - 2) |->
                     [i \in 1..(goal_dim * batch) |->
                         diff[i] + normal[j][i] * scale[i]]]
        stacked == drawn \o <<diff, flatten(orig_goals)>>
        minimum == tile(low, batch)
        maximum == tile(high, batch)
        clipped == [j \in 1..num_samples |->
                       [i \in 1..(goal_dim * batch) |->
                           Min(Max(stacked[j][i], minimum[i]), maximum[i])]]
    IN  reshape(transpose(clipped), batch, goal_dim, num_samples)

\* one call of _sample
run_sample(states, next_states, num_samples, orig_goals, normal, low, high) ==
    /\ err = "none"
    /\ policy = "GoalConditionedPolicy"
    /\ h_last.op = "none"
    /\ ret' = _sample(states, next_states, num_samples, orig_goals, normal,
                      low, high)
    /\ h_last' = [NoCall EXCEPT
                     !.op = "_sample",
                     !.before = [states |-> states,
                                 next_states |-> next_states,
                                 num_samples |-> num_samples,
                                 orig_goals |-> orig_goals,
                                 low |-> low, high |-> high],
                     !.returned = _sample_buffers]
    /\ UNCHANGED eval_unchanged

(***************************************************************************)
(* Scoring of candidate goals (td3.py, _log_probs) and selection of the    *)
(* best one (policy.py, _sample_best_meta_action).  The Worker's actor is  *)
(* a deterministic function of its observation and goal, drawn from a      *)
(* family of linear ones; its action has one component.                    *)
(***************************************************************************)
\* self.policy[-1].get_action(obs, goal, apply_noise=False,
\* random_actions=False) of the Worker whose actor is pi
worker_get_action(obs, goal, pi) ==
    pi.wo * obs[1] + pi.wg * SumSeq([g \in DOMAIN goal |-> g * goal[g]])

\* the bounds of the Worker's action space (ac_space of self.worker); the
\* linear actors that stand for the Worker's network are not squashed into it
WorkerAcLow == -1
WorkerAcHigh == 1

\* self.goal_indices: the entries of the observation the goal is about
goal_indices(goal_dim) == [g \in 1..goal_dim |-> g]

\* "tiled_goals_per_sample += np.tile(goal_diff, ...)[:, self.goal_indices]":
\* the goal _log_probs gives the Worker at a step whose observation differs
\* from the first of the period by goal_diff
relative_goal_of_step(goal, goal_diff) ==
    [g \in DOMAIN goal |-> goal[g] + goal_diff[goal_indices(Len(goal))[g]]]

\* row (j, t) of tiled_goals_per_sample in td3.py's _log_probs: the goal
\* paired with the Worker observation of step t when candidate j is scored
tiled_goal(goals_per_sample, worker_obses_per_sample, j, t) ==
    IF relative_goals
    THEN relative_goal_of_step(
             goals_per_sample[j],
             VecSub(worker_obses_per_sample[t], worker_obses_per_sample[1]))
    ELSE goals_per_sample[j]

\* td3.py, _log_probs: meta_actions is (batch, goal_dim, num_samples),
\* worker_obses (batch, obs_dim, meta_period + 1), worker_actions
\* (batch, 1, meta_period); the result is (batch, num_samples)
_log_probs(meta_actions, worker_obses, worker_actions, pi) ==
    [i \in 1..Len(meta_actions) |->
        LET goal_dim == Len(meta_actions[i])
            goals_per_sample == transpose(meta_actions[i])
            worker_obses_per_sample == transpose(worker_obses[i])
            worker_actions_per_sample == transpose(worker_actions[i])
            period == Len(worker_actions_per_sample)
            env_obs(t) ==
                SubSeq(worker_obses_per_sample[t], 1,
                       Len(worker_obses_per_sample[t]) - goal_dim)
            goal(j, t) ==
                tiled_goal(goals_per_sample, worker_obses_per_sample, j, t)
            pred_action(j, t) == worker_get_action(env_obs(t), goal(j, t), pi)
            normalized_error(j, t) ==
                -((worker_actions_per_sample[t][1] - pred_action(j, t))
                  * (worker_actions_per_sample[t][1] - pred_action(j, t)))
        IN  [j \in 1..Len(goals_per_sample) |->
                SumSeq([t \in 1..period |-> normalized_error(j, t)])]]

\* tf.argmax(fitness, 0) on a (num_samples, batch) array: for every batch
\* element the indices (from 1) it may return; which of several maximal ones
\* it returns is not specified
argmax(fitness) ==
    [b \in 1..Len(fitness[1]) |->
        {j \in 1..Len(fitness) :
            \A j2 \in 1..Len(fitness) : fitness[j2][b] <= fitness[j][b]}]

\* tf.gather_nd(sampled_actions, tf.stack([best_actions, tf.range(batch)],
\* -1)) reads sampled_actions[best_actions[b], b] (indices from 0) for every
\* b: the first index runs over the first axis of sampled_actions, the second
\* over its second axis.  Indices here count from 1.
gather_in_bounds(sampled_actions, best_actions, b) ==
    /\ best_actions[b] <= Len(sampled_actions)
    /\ b <= Len(sampled_actions[1])

\* an index outside the array gives zeros where it is not an error
gather_nd(sampled_actions, best_actions) ==
    [b \in 1..Len(best_actions) |->
        IF gather_in_bounds(sampled_actions, best_actions, b)
        THEN sampled_actions[best_actions[b]][b]
        ELSE [j \in 1..Len(sampled_actions[1][1]) |-> 0]]

\* GoalConditionedPolicy._sample_best_meta_action with k candidates: the
\* candidates of _sample are scored by _log_probs, the scores summed into a
\* (k, batch) array, and the best ones gathered.  best_actions is what
\* tf.argmax returns; oob tells whether an index outside the array is an
\* error (CPU kernel) or gives zeros (GPU kernel).  The arrays are given as
\* values.
_sample_best_meta_action(state_reps, next_state_reprs, prev_meta_actions, low_states, low_actions, k, normal, low, high, pi) ==
    /\ err = "none"
    /\ policy = "GoalConditionedPolicy"
    /\ h_last.op = "none"
    /\ \E sampled_actions \in {_sample(state_reps, next_state_reprs, k,
                                         prev_meta_actions, normal, low,
                                         high)} :
       \E fitness \in {transpose(_log_probs(sampled_actions, low_states,
                                             low_actions, pi))} :
       \E best_actions \in [1..Len(prev_meta_actions) -> 1..k],
          oob \in {"error", "zeros"} :
           /\ \A b \in 1..Len(prev_meta_actions) :
                  best_actions[b] \in argmax(fitness)[b]
           /\ h_last' = [NoCall EXCEPT
                            !.op = "_sample_best_meta_action",
                            !.before = [state_reps |-> state_reps,
                                        next_state_reprs |-> next_state_reprs,
                                        prev_meta_actions |-> prev_meta_actions,
                                        low_states |-> low_states,
                                        low_actions |-> low_actions,
                                        k |-> k, pi |-> pi,
                                        low |-> low, high |-> high,
                                        sampled_actions |-> sampled_actions,
                                        fitness |-> fitness,
                                        tiled_goals |->
                                            [b \in 1..Len(prev_meta_actions) |->
                                              [j \in 1..k |->
                                                [t \in 1..Len(low_actions[b][1]) |->
                                                  tiled_goal(
                                                    transpose(sampled_actions[b]),
                                                    transpose(low_states[b]),
                                                    j, t)]]]],
                            !.written = _log_probs_writes(_sample_buffers),
                            !.returned = allocated("best_goals",
                                                   {_sample_buffers})]
           /\ IF oob = "error"
                 /\ \E b \in 1..Len(prev_meta_actions) :
                        ~gather_in_bounds(sampled_actions, best_actions, b)
              THEN /\ err' = "InvalidArgumentError"
                   /\ UNCHANGED ret
              ELSE /\ ret' = gather_nd(sampled_actions, best_actions)
                   /\ UNCHANGED err
    /\ UNCHANGED <<conf_vars, meta_action, meta_reward, prev_meta_obs,
                   acc_vars, replay_buffer, params, samples, h_steps,
                   h_mgr, h_buf, h_obs, h_ep, h_calls>>

RECURSIVE RolloutGoal(_, _, _)
\* the goal the Worker is given at step t of a meta-period that started with
\* goal g0 and went through the observations obs: get_action applies
\* goal_transition_fn at every step after the first
RolloutGoal(obs, g0, t) ==
    IF t = 1 THEN g0
    ELSE goal_transition_fn(Prefix(obs[t - 1], Len(g0)),
                            RolloutGoal(obs, g0, t - 1),
                            Prefix(obs[t], Len(g0)))

\* the Worker observations store_transition accumulates over a meta-period
\* of the given length, as (obs_dim, length + 1): the observation of every
\* step with the goal of that step, then the last observation with the last
\* goal
RolloutObses(obs, g0, length) ==
    transpose([t \in 1..(length + 1) |->
                  _get_obs(obs[t], RolloutGoal(obs, g0, Min(t, length)))])

\* the actions the Worker pi took in that meta-period, as (1, length)
RolloutActions(obs, g0, length, pi) ==
    <<[t \in 1..length |->
          worker_get_action(obs[t], RolloutGoal(obs, g0, t), pi)]>>

(***************************************************************************)
(* SpecEval: one evaluation on a constructed Feed-Forward policy.          *)
(***************************************************************************)
InitEval ==
    \E kind \in PolicyKinds, relative \in Bools :
        /\ kind = "FeedForwardPolicy" => ~relative
        /\ Construct(kind, 1, relative, 1, FALSE, FALSE)

EvalTargetQ ==
    /\ h_last.op = "none"
    /\ \E rew_ph \in -MaxRew..MaxRew, terminals1 \in {0, 1},
       gamma \in 0..MaxGamma, actor_target \in {-Scale, 0, Scale},
       target_noise \in {-2 * Scale, 0, 1},
       critic_target \in [Critics -> -MaxQ..MaxQ] :
        run_target_q(rew_ph, terminals1, gamma, <<1>>, actor_target,
                     target_noise, critic_target)

EvalGetAction ==
    /\ h_last.op = "none"
    /\ \E low \in -MaxBox..MaxBox, high \in -MaxBox..MaxBox,
       t \in -TanhDen..TanhDen, normal \in -MaxNoise..MaxNoise,
       apply_noise \in Bools, random_actions \in Bools :
        /\ low <= high
        /\ \E sample \in (low * Scale)..(high * Scale) :
               ff_get_action(t, apply_noise, random_actions, normal, sample,
                             low, high)

\* the sampled batch holds two Manager transitions with goals of dimension 2
\* and observations of dimension 3; the bounds of the Manager's action space
\* differ between the two goal dimensions
GoalLow == <<-4, -8>>
GoalHigh == <<4, 8>>
EvalStates == <<<<0, 0, 0>>, <<4, 0, 0>>>>
EvalDiffs == {-12, 0, 4}
EvalOrigGoals == {<<-4, 8>>, <<0, -4>>}

EvalSample ==
    /\ h_last.op = "none"
    /\ \E num_samples \in 2..MaxSamples,
             d \in [1..2 -> [1..2 -> EvalDiffs]],
             orig_goals \in [1..2 -> EvalOrigGoals] :
          \E normal \in [1..(num_samples - 2) -> [1..4 -> {-1, 1}]] :
              run_sample(EvalStates,
                         [b \in 1..2 |->
                             <<EvalStates[b][1] + d[b][1],
                               EvalStates[b][2] + d[b][2], 1>>],
                         num_samples, orig_goals, normal, GoalLow, GoalHigh)

\* actors of the Worker: wg = 0 ignores the goal
EvalActors == {[wo |-> 1, wg |-> 0], [wo |-> 0, wg |-> 1], [wo |-> 1, wg |-> 2]}

\* one sampled Manager transition with a goal of dimension 1 and a
\* meta-period of two steps, recorded with the Worker that scores it
EvalBestMetaAction ==
    /\ h_last.op = "none"
    /\ \E obs \in [1..3 -> {<<0>>, <<1>>, <<3>>}], g0 \in {<<-2>>, <<0>>, <<1>>},
          pi \in EvalActors, k \in 2..MaxSamples :
       \E normal \in [1..(k - 2) -> [1..1 -> {-1, 1}]],
          low_states \in {<<RolloutObses(obs, g0, 2)>>},
          low_actions \in {<<RolloutActions(obs, g0, 2, pi)>>} :
           _sample_best_meta_action(<<obs[1]>>, <<obs[3]>>, <<g0>>,
                                    low_states, low_actions, k, normal,
                                    <<-4>>, <<4>>, pi)

\* two sampled Manager transitions with goals of dimension 2 and a
\* meta-period of one step
EvalBestMetaActionBatch ==
    /\ h_last.op = "none"
    /\ \E o1 \in {<<0, 0>>, <<4, 0>>}, o2 \in {<<0, 4>>, <<4, -4>>},
          goals \in [1..2 -> EvalOrigGoals],
          pi \in EvalActors, k \in 2..MaxSamples :
       \E normal \in [1..(k - 2) -> [1..4 -> {-1, 1}]],
          obs \in {<<<<<<0, 0>>, o1>>, <<<<4, 0>>, o2>>>>} :
       \E low_states \in {[b \in 1..2 |->
                               RolloutObses(obs[b], goals[b], 1)]},
          low_actions \in {[b \in 1..2 |->
                                RolloutActions(obs[b], goals[b], 1, pi)]} :
           _sample_best_meta_action(
               <<obs[1][1], obs[2][1]>>, <<obs[1][2], obs[2][2]>>, goals,
               low_states, low_actions, k, normal, GoalLow, GoalHigh, pi)

NextEval ==
    \/ EvalTargetQ
    \/ EvalGetAction
    \/ EvalSample
    \/ EvalBestMetaAction
    \/ EvalBestMetaActionBatch

SpecEval == InitEval /\ [][NextEval]_vars


(***************************************************************************)
(* C13: the critic bootstrap target is                                     *)
(* reward + (1 - done) * gamma * min(Q1_target, Q2_target), the target     *)
(* critics being fed the next observation and the smoothed target action.  *)
(***************************************************************************)
\* C13: the bootstrap target equals reward + (1 - done) * gamma * m with m the
\* smaller target-critic output; it is the reward when done = 1 and at most
\* reward + gamma * Q of either target critic when done = 0; the target
\* critics are fed obs1 and an action inside the box that is within the
\* noise clip of the target actor's output
C13_BootstrapTarget ==
    h_last.op = "target_q" =>
        LET a == h_last.before
            q == a.critic_target
        IN  /\ \E m \in {q[n] : n \in Critics} :
                   /\ \A n \in Critics : m <= q[n]
                   /\ ret.target_q =
                          a.rew_ph + (1 - a.terminals1) * a.gamma * m
            /\ a.terminals1 = 1 => ret.target_q = a.rew_ph
            /\ a.terminals1 = 0 =>
                   \A n \in Critics :
                       ret.target_q <= a.rew_ph + a.gamma * q[n]
            /\ ret.critic_obs = a.obs1_ph
            /\ ret.critic_action >= -Scale /\ ret.critic_action <= Scale
            /\ Abs(ret.critic_action - a.actor_target) <= Scale

\* a target computed for a non-terminal step on which the second target
\* critic is the smaller one and the target noise was clipped
C13_Witness ==
    /\ h_last.op = "target_q"
    /\ h_last.before.terminals1 = 0
    /\ h_last.before.gamma = 2
    /\ h_last.before.critic_target["qf_0"] > h_last.before.critic_target["qf_1"]
    /\ h_last.before.target_noise < -Scale
    /\ ret.target_q = h_last.before.rew_ph
                          + 2 * h_last.before.critic_target["qf_1"]

(***************************************************************************)
(* C14: FeedForwardPolicy.get_action returns an action inside the action   *)
(* space for every combination of apply_noise and random_actions.          *)
(***************************************************************************)
\* C14: the action FeedForwardPolicy.get_action returns lies between the low
\* and high bounds of the action space, whatever the flags and the noise
C14_ActionInBox ==
    h_last.op = "ff_get_action" =>
        /\ ret >= h_last.before.low
        /\ ret <= h_last.before.high

\* a noisy action that left the box was returned clipped to the high bound
C14_Witness ==
    /\ h_last.op = "ff_get_action"
    /\ h_last.before.apply_noise
    /\ ~h_last.before.random_actions
    /\ h_last.before.noisy > h_last.before.high
    /\ ret = h_last.before.high


(***************************************************************************)
(* C15: with off_policy_corrections enabled, every update() that updates   *)
(* the Manager trains it on the relabelled goals, not on the logged ones.  *)
(***************************************************************************)
\* C15: when off_policy_corrections is set, the goals a Manager update is
\* given are not the logged goals of the sampled batch
C15_ManagerTrainedOnRelabelledGoals ==
    off_policy_corrections =>
        \A c \in h_last.calls :
            c.level = "Manager" => c.actions # "meta_act"


Reproduces(a, b) ==
    LET obses == transpose(a.low_states[b])
        goal_dim == Len(a.prev_meta_actions[b])
        obs_dim == Len(obses[1]) - goal_dim
    IN  /\ SubSeq(obses[1], obs_dim + 1, obs_dim + goal_dim)
               = a.prev_meta_actions[b]
        /\ \A t \in 1..Len(a.low_actions[b][1]) :
               a.low_actions[b][1][t] =
                   worker_get_action(
                       SubSeq(obses[t], 1, obs_dim),
                       SubSeq(obses[t], obs_dim + 1, obs_dim + goal_dim),
                       a.pi)

\* C17: whenever the logged goal of every batch element lies in the Manager's
\* box and reproduces the recorded Worker actions, the selection succeeds,
\* the logged goal (the last candidate) scores at least as high as every
\* other candidate and it is the goal returned for its element
C17_LoggedGoalSelected ==
    h_last.op = "_sample_best_meta_action" =>
        LET a == h_last.before
            batch == 1..Len(a.prev_meta_actions)
        IN  (\A b \in batch :
                 /\ Reproduces(a, b)
                 /\ \A g \in DOMAIN a.prev_meta_actions[b] :
                        /\ a.low[g] <= a.prev_meta_actions[b][g]
                        /\ a.prev_meta_actions[b][g] <= a.high[g])
            => /\ err = "none"
               /\ \A b \in batch : \A j \in 1..a.k :
                      a.fitness[j][b] <= a.fitness[a.k][b]
               /\ \A b \in batch : ret[b] = a.prev_meta_actions[b]

\* C18: the goal returned for every batch element is its candidate of the
\* smallest index among those of maximal total score
C18_FirstIndexWins ==
    h_last.op = "_sample_best_meta_action" =>
        LET a == h_last.before
            first(b) ==
                CHOOSE j \in argmax(a.fitness)[b] :
                    \A j2 \in argmax(a.fitness)[b] : j <= j2
        IN  /\ err = "none"
            /\ \A b \in 1..Len(a.prev_meta_actions) :
                   ret[b] = [g \in DOMAIN a.prev_meta_actions[b] |->
                                a.sampled_actions[b][g][first(b)]]

C20_JointOptimizerReplacesActorStep ==
    [][\A c \in h_last'.calls :
          (err' = "none" /\ c.level = "Manager") =>
              LET p == params["Manager"]
                  q == params'["Manager"]
                  pw == params["Worker"]
                  qw == params'["Worker"]
                  ran(o) == <<"Manager", o>> \in h_last'.ops
                  w == CHOOSE d \in h_last'.calls : d.level = "Worker"
              IN  /\ (c.fn = "_connected_gradients_update")
                         <=> connected_gradients
                  /\ connected_gradients =>
                         /\ ~ran("actor_optimizer")
                         /\ ran("critic_optimizer_0")
                         /\ ran("critic_optimizer_1")
                         /\ ran("cg_optimizer") <=> c.update_actor
                         /\ ran("target_soft_updates") <=> c.update_actor
                         /\ q.online["pi"] =
                                IF c.update_actor
                                THEN optimizer_step(p.online["pi"])
                                ELSE p.online["pi"]
                         /\ \A n \in Critics :
                                /\ q.online[n] =
                                       optimizer_step(
                                           optimizer_step(p.online[n]))
                                /\ qw.online[n] =
                                       optimizer_step(
                                           optimizer_step(pw.online[n]))
                         /\ qw.online["pi"] =
                                IF w.update_actor
                                THEN optimizer_step(pw.online["pi"])
                                ELSE pw.online["pi"]
                         /\ ~c.update_actor => q.target = p.target
                         /\ ~w.update_actor => qw.target = pw.target]_vars

\* an update() with connected gradients has run the joint optimizer on the
\* Manager while the Worker's actor was not updated
C20_Witness ==
    /\ h_last.op = "update"
    /\ connected_gradients
    /\ BatchCall("Manager", "_connected_gradients_update", TRUE)
           \in h_last.calls
    /\ BatchCall("Worker", "update_from_batch", FALSE) \in h_last.calls
    /\ <<"Manager", "cg_optimizer">> \in h_last.ops
    /\ <<"Manager", "target_soft_updates">> \in h_last.ops

(***************************************************************************)
(* C21: a malformed hidden-layer specification is rejected by the          *)
(* constructor before anything is created.                                 *)
(***************************************************************************)
\* C21: a Feed-Forward policy given an empty list or None as its layers ends
\* its construction with the AssertionError its docstring announces and has
\* created no replay buffer, placeholder or network
C21_MalformedLayersRejected ==
    (policy = "FeedForwardPolicy"
        /\ (layers = None \/ layers = <<<<>>>>)) =>
            /\ err = "AssertionError"
            /\ built = {}

(***************************************************************************)
(* C22: the score of a candidate goal.                                     *)
(***************************************************************************)
\* C22: for every batch element b and candidate j, the score times the
\* squared range of the Worker's action space is minus the sum, over the
\* steps of the recorded meta-period, of the squared difference between the
\* recorded action and the action the Worker predicts for the recorded
\* observation of b and candidate j of b
C22_ScoreIsNormalizedSquaredError ==
    h_last.op = "_sample_best_meta_action" =>
        LET a == h_last.before
            range == WorkerAcHigh - WorkerAcLow
            goal_dim == Len(a.prev_meta_actions[1])
            Score(b, j) ==
                LET obses == transpose(a.low_states[b])
                    g == [d \in 1..goal_dim |-> a.sampled_actions[b][d][j]]
                    env_obs(t) ==
                        SubSeq(obses[t], 1, Len(obses[t]) - goal_dim)
                    goal(t) ==
                        IF relative_goals
                        THEN relative_goal_of_step(
                                 g, VecSub(obses[t], obses[1]))
                        ELSE g
                    e(t) == a.low_actions[b][1][t]
                                - worker_get_action(env_obs(t), goal(t), a.pi)
                IN  SumSeq([t \in 1..Len(a.low_actions[b][1]) |->
                               -(e(t) * e(t))])
        IN  \A b \in 1..Len(a.prev_meta_actions) : \A j \in 1..a.k :
                a.fitness[j][b] * range * range = Score(b, j)

(***************************************************************************)
(* C23: the intrinsic reward of every step.                                *)
(***************************************************************************)
\* C23: every store_transition call that returns, whatever evaluate is and
\* whether or not the Manager was queried for the step, appends to the
\* rewards accumulated so far exactly one reward, worker_reward_scale times
\* the negative distance computed on the call's obs0 and obs1 and on the goal
\* the preceding get_action left in meta_action; at finalization the list so
\* extended, one reward per step of the period, is the reward_t of the sample
\* added
C23_OneIntrinsicRewardPerStep ==
    [][(h_last'.op = "store_transition"
           /\ h_calls'.store = h_calls.store + 1 /\ err' = "none") =>
          LET c == h_last'.before
              r == worker_reward_scale
                       * negative_distance(c.obs0, meta_action, c.obs1,
                                           relative_goals)
              rewards == Append(_worker_rewards, r)
          IN  /\ h_last.op = "get_action"
              /\ c.goal = meta_action
              /\ Len(rewards) = h_last'.n
              /\ IF h_last'.finalized
                 THEN h_last'.added =>
                          replay_buffer'[Len(replay_buffer')].reward_t
                              = rewards
                 ELSE _worker_rewards' = rewards]_vars

\* an evaluation step and a training step have each appended a reward, and a
\* stored meta-transition of two steps holds two different rewards
C23_Witness ==
    /\ h_last.op = "store_transition"
    /\ h_last.finalized /\ h_last.added
    /\ Len(replay_buffer[Len(replay_buffer)].reward_t) = 2
    /\ replay_buffer[Len(replay_buffer)].reward_t[1]
           # replay_buffer[Len(replay_buffer)].reward_t[2]
    /\ replay_buffer[Len(replay_buffer)].obs_t[1]
           # replay_buffer[Len(replay_buffer)].obs_t[2]

(***************************************************************************)
(* C24: what one update() of the hierarchy controller steps.               *)
(***************************************************************************)
\* C24: an update() of the hierarchy controller made while the buffer can
\* sample draws exactly one sample; if it returns, it has stepped the
\* Worker's critics, the Worker's actor and targets exactly when update_actor
\* is true, the Manager's critics exactly when update_meta is true and the
\* Manager's actor and targets exactly when update_meta and
\* update_meta_actor are both true; with update_meta false the Manager's
\* parameters and targets are unchanged and both Manager losses are 0
C24_OneSampleBothLevels ==
    [][(Hier /\ h_calls'.update # h_calls.update /\ can_sample
           /\ h_last'.op # "get_td_map") =>
          /\ samples' = samples + 1
          /\ err' = "none" =>
                 LET k == h_last'.before
                     meta == k.update_meta = <<TRUE>>
                     meta_actor == meta /\ k.update_meta_actor = <<TRUE>>
                     ran(l, o) == <<l, o>> \in h_last'.ops
                     stepped(l, n) ==
                         params'[l].online[n] # params[l].online[n]
                     actor_op == IF connected_gradients THEN "cg_optimizer"
                                 ELSE "actor_optimizer"
                 IN  /\ h_last'.op = "update"
                     /\ \A n \in Critics :
                            /\ ran("Worker", "critic_optimizer_0")
                            /\ ran("Worker", "critic_optimizer_1")
                            /\ stepped("Worker", n)
                            /\ stepped("Manager", n) <=> meta
                     /\ ran("Manager", "critic_optimizer_0") <=> meta
                     /\ ran("Manager", "critic_optimizer_1") <=> meta
                     /\ ran("Worker", "actor_optimizer") <=> k.update_actor
                     /\ ran("Worker", "target_soft_updates")
                            <=> k.update_actor
                     /\ stepped("Worker", "pi") <=> k.update_actor
                     /\ ~k.update_actor =>
                            params'["Worker"].target = params["Worker"].target
                     /\ ran("Manager", actor_op) <=> meta_actor
                     /\ ran("Manager", "target_soft_updates") <=> meta_actor
                     /\ stepped("Manager", "pi") <=> meta_actor
                     /\ ~meta_actor =>
                            params'["Manager"].target
                                = params["Manager"].target
                     /\ ~meta =>
                            /\ params'["Manager"] = params["Manager"]
                            /\ ret'[1][1] = 0
                            /\ ret'[2][1] = 0]_vars

\* an update() that sampled has skipped the Manager and stepped the Worker's
\* actor
C24_Witness ==
    /\ Hier /\ h_last.op = "update" /\ h_last.can
    /\ h_last.before.update_meta = <<FALSE>>
    /\ h_last.before.update_actor
    /\ samples = 1
    /\ <<"Worker", "actor_optimizer">> \in h_last.ops
    /\ ret[1][1] = 0 /\ ret[2][1] = 0 /\ ret[1][2] # 0

(***************************************************************************)
(* C25: the goal and the Manager observations of a meta-transition.        *)
(***************************************************************************)
\* C25: the first step stored in a meta-period follows a get_action that
\* queried the Manager, and the sample added at the finalization holds as
\* goal_t the goal in effect at that first step and as meta_obs_t the pair of
\* that first step's obs0 joined with its context0 and of the finalizing
\* step's obs1 joined with its context1
C25_GoalAndManagerObsOfPeriod ==
    [][(h_last'.op = "store_transition"
           /\ h_calls'.store = h_calls.store + 1 /\ err' = "none") =>
          LET c == h_last'.before
              first == IF h_steps = <<>>
                       THEN [obs0 |-> c.obs0, context0 |-> c.context0,
                             goal |-> c.goal]
                       ELSE h_steps[1]
              Joined(obs, context) ==
                  IF context = None THEN obs ELSE obs \o context
          IN  /\ h_steps = <<>> =>
                     (h_last.op = "get_action" /\ h_last.queried
                          /\ c.goal = meta_action)
              /\ (h_last'.finalized /\ h_last'.added) =>
                     LET e == replay_buffer'[Len(replay_buffer')]
                     IN  /\ e.goal_t = first.goal
                         /\ e.meta_obs_t =
                                <<Joined(first.obs0, first.context0),
                                  Joined(c.obs1, c.context1)>>]_vars

\* two meta-transitions were added one after the other; the second starts
\* from another observation, context and goal than the first and holds those
\* of its own first step
C25_Witness ==
    /\ h_last.op = "store_transition" /\ h_last.finalized /\ h_last.added
    /\ Len(replay_buffer) = 2
    /\ replay_buffer[1].meta_obs_t[1] = <<0>>
    /\ replay_buffer[1].goal_t = <<0>>
    /\ replay_buffer[2].meta_obs_t[1] = <<1, 0>>
    /\ replay_buffer[2].meta_obs_t[2] = h_last.before.obs1 \o <<1>>
    /\ replay_buffer[2].goal_t = <<1>>

C27_StoredGoalIsWorkerGoal ==
    LET GoalPart(o, g) == SubSeq(o, Len(o) - Len(g) + 1, Len(o))
        Agree(obses, steps, k) ==
            \A i \in 1..k :
                /\ steps[i].worker_goal # None
                /\ GoalPart(obses[i], steps[i].worker_goal)
                       = steps[i].worker_goal
                /\ Len(obses[i])
                       = Len(steps[i].obs0) + Len(steps[i].worker_goal)
    IN  /\ Len(h_steps) = Len(_worker_actions)
        /\ Agree(_observations, h_steps, Len(_worker_actions))
        /\ Len(h_buf) = Len(replay_buffer)
        /\ \A k \in 1..Len(replay_buffer) :
               /\ Len(h_buf[k]) = Len(replay_buffer[k].action_t)
               /\ Agree(replay_buffer[k].obs_t, h_buf[k],
                        Len(replay_buffer[k].action_t))

\* a stored meta-transition of two steps under relative framing whose two
\* Worker observations hold different goals, and a period under way
C27_Witness ==
    /\ relative_goals
    /\ Len(replay_buffer) >= 1
    /\ Len(replay_buffer[1].action_t) = 2
    /\ h_buf[1][1].worker_goal # h_buf[1][2].worker_goal
    /\ replay_buffer[1].obs_t[2][2] = h_buf[1][2].worker_goal[1]
    /\ Len(_worker_actions) = 1

\* C28: when a candidate goal g is scored for a recorded meta-period, the
\* goal paired with the Worker observation of step t is the one
\* goal_transition_fn yields along the recorded observations starting from
\* g: under relative framing g + obs_0[goal_indices] - obs_t[goal_indices],
\* under absolute framing g at every step
C28_ScoredGoalFollowsTransition ==
    h_last.op = "_sample_best_meta_action" =>
        LET a == h_last.before
        IN  \A b \in 1..Len(a.prev_meta_actions) :
                LET goal_dim == Len(a.prev_meta_actions[b])
                    obses == transpose(a.low_states[b])
                    env == [t \in DOMAIN obses |->
                               SubSeq(obses[t], 1, Len(obses[t]) - goal_dim)]
                    candidates == transpose(a.sampled_actions[b])
                IN  \A j \in 1..a.k : \A t \in 1..Len(a.low_actions[b][1]) :
                        /\ a.tiled_goals[b][j][t]
                               = RolloutGoal(env, candidates[j], t)
                        /\ relative_goals =>
                               a.tiled_goals[b][j][t]
                                   = VecSub(VecAdd(candidates[j],
                                                   Prefix(env[1], goal_dim)),
                                            Prefix(env[t], goal_dim))

\* C28, absolute framing: every step of the period is paired with the
\* candidate goal itself
C28_AbsoluteGoalAtEveryStep ==
    (h_last.op = "_sample_best_meta_action" /\ ~relative_goals) =>
        LET a == h_last.before
        IN  \A b \in 1..Len(a.prev_meta_actions) :
                \A j \in 1..a.k : \A t \in 1..Len(a.low_actions[b][1]) :
                    a.tiled_goals[b][j][t]
                        = transpose(a.sampled_actions[b])[j]

\* obs[:goal_dim] + goal under relative framing, the goal under absolute
\* framing, of a stored Worker observation whose last goal_dim entries are
\* the goal
GoalTarget(o, goal_dim) ==
    LET goal == SubSeq(o, Len(o) - goal_dim + 1, Len(o))
    IN  IF relative_goals THEN VecAdd(Prefix(o, goal_dim), goal) ELSE goal

\* C29: in every stored meta-transition consecutive Worker observations,
\* the last pair formed with the final observation included, are related by
\* goal_transition_fn: obs_i[:goal_dim] + goal_i under relative framing,
\* goal_i under absolute framing, is the same for every index i of obs_t
C29_StoredGoalsFollowTransition ==
    \A k \in 1..Len(replay_buffer) :
        LET e == replay_buffer[k]
            d == Len(e.goal_t)
        IN  \A i \in 1..Len(e.obs_t) :
                GoalTarget(e.obs_t[i], d) = GoalTarget(e.obs_t[1], d)

\* C29 without the final observation: the observations paired with an
\* action are related by goal_transition_fn, and under absolute framing the
\* final observation is as well
C29_GoalsFollowTransitionBeforeLast ==
    \A k \in 1..Len(replay_buffer) :
        LET e == replay_buffer[k]
            d == Len(e.goal_t)
            last == IF relative_goals THEN Len(e.action_t) ELSE Len(e.obs_t)
        IN  \A i \in 1..last :
                GoalTarget(e.obs_t[i], d) = GoalTarget(e.obs_t[1], d)

\* C30: in every batched update each online critic of the level receives
\* exactly one optimizer step, critic optimizer i stepping the parameters
\* under qf_i and no others.  (An update() that raises makes no batched
\* update and leaves the record of the calls before it.)
C30_OneStepPerCritic ==
    [][\A c \in h_last'.calls :
          (err' = "none" /\ c.fn = "update_from_batch") =>
              /\ params'[c.level].online["qf_0"]
                     = optimizer_step(params[c.level].online["qf_0"])
              /\ params'[c.level].online["qf_1"]
                     = optimizer_step(params[c.level].online["qf_1"])
              /\ optimizer_vars("critic_optimizer_0") = {"qf_0"}
              /\ optimizer_vars("critic_optimizer_1") = {"qf_1"}]_vars

\* C30, the frame that does hold: the critic optimizers of a level step
\* neither its actor nor any parameter of a level the update makes no call
\* on, and each online critic receives the steps of both optimizers
C30_CriticStepsStayInLevel ==
    [][(err' = "none" /\ h_last'.op = "update" /\ h_last'.can) =>
          /\ \A c \in h_last'.calls :
                 /\ \A n \in Critics :
                        params'[c.level].online[n]
                            = optimizer_step(
                                  optimizer_step(params[c.level].online[n]))
                 /\ ~c.update_actor =>
                        params'[c.level].online["pi"]
                            = params[c.level].online["pi"]
          /\ \A l \in DOMAIN params :
                 (\A c \in h_last'.calls : c.level # l) =>
                     params'[l] = params[l]]_vars

====
